---- MODULE Spec2Model ----
(***************************************************************************)
(* Model of inflame/data/util/embed.py: the NLP document embedder.         *)
(*                                                                         *)
(* A text is a sequence of words.  A document collection is a sequence of  *)
(* texts.  The embedding tensor is a function                              *)
(*   doc index (0-based) -> word slot (0-based) -> vector (a tuple).       *)
(* numpy arrays are heap objects: `heap` holds every array allocated so    *)
(* far, and `embedding`/`returned` hold references (indices) into it.      *)
(***************************************************************************)
EXTENDS Integers, Sequences, FiniteSets, TLC

\* ------------------------------------------------------------------ bounds
MaxDocs  == 2      \* documents per collection
MaxCalls == 2      \* embed() calls per embedder instance

\* ------------------------------------------------------- program constants
FixedDocsizeValue == 200

VARIABLES
    pc,             \* "start" | "ready" | "embedding" | "LookupUnavailable"
    instance,       \* TRUE once NLP(docs) has returned an object to the caller
    DOCS,           \* self.__DOCS
    FIXED_DOCSIZE,  \* self.__FIXED_DOCSIZE
    WORD_VECS,      \* self.__WORD_VECS
    loads,          \* number of load(...) calls made so far
    loadResult,     \* "none" | "ok" | "unavailable": how the last load ended
    heap,           \* every array allocated by zeros(), by reference
    embedding,      \* embed()'s local `embedding`: a reference into heap
    i,              \* embed()'s loop index over the documents
    words,          \* embed()'s local `words` of the last iteration
    rows,           \* per processed document, how many rows were assigned
    err,            \* the exception that ended the last embed() call
    calls,          \* number of embed() calls started
    returned        \* the references embed() has returned, in call order

vars == <<pc, instance, DOCS, FIXED_DOCSIZE, WORD_VECS, loads, loadResult,
          heap, embedding, i, words, rows, err, calls, returned>>

\* ------------------------------------------------------------------- texts
\* A text is the sequence of its maximal runs of word characters, as they
\* are spelled in the text (case kept); what separates them is left out.
\* A bytes document that is not valid UTF-8 holds InvalidBytes.
InvalidBytes == "\\xff"

\* str.lower() on one run of word characters.
lower(w) ==
    CASE w = "Cat" -> "cat"
      [] w = "The" -> "the"
      [] w = "TO"  -> "to"
      [] OTHER     -> w

\* gensim to_unicode(text, 'utf8', errors='strict') raises on undecodable input.
CanTokenize(text) == \A p \in 1..Len(text) : text[p] # InvalidBytes

\* gensim.utils.tokenize(text, lower=True): lowercase the text, then yield
\* the runs of word characters, left to right.
tokenize(text) == [p \in 1..Len(text) |-> lower(text[p])]

\* ----------------------------------------------------------------- inputs
RECURSIVE SeqsUpTo(_, _)
SeqsUpTo(S, n) ==
    IF n = 0 THEN {<<>>}
    ELSE LET shorter == SeqsUpTo(S, n - 1)
         IN  shorter \cup {Append(s, x) : s \in shorter, x \in S}

\* "", one word of each kind (in and out of either vocabulary, stopword or
\* not, capitalised or not), and two words in the order opposite to the
\* alphabet's.
ShortTexts ==
    { <<>>, <<"Cat">>, <<"sat">>, <<"the">>, <<"TO">>, <<"sat", "Cat">> }

\* "the cat cat ... cat sat" with n times "cat".
LongText(n) == <<"the">> \o [k \in 1..n |-> "cat"] \o <<"sat">>

\* Under a vocabulary with cat and sat: exactly as many surviving tokens as
\* there are word slots, and one more.
LongTexts == {LongText(FixedDocsizeValue - 1), LongText(FixedDocsizeValue)}

SpecialTexts ==
    { <<"a", "and", "for">>,
      <<"The", "Cat", "sat", "zzq", "in", "cat", "of">> }

BadTexts == { <<"cat", InvalidBytes>> }

Texts == ShortTexts \cup LongTexts \cup SpecialTexts \cup BadTexts

DocCollections == SeqsUpTo(Texts, MaxDocs)

\* Candidate pretrained vector spaces (gensim 3.x KeyedVectors: vector_size,
\* the vocab mapping, and __getitem__ as `vectors`).  No word has an all-zero
\* vector.
NoVecs == [vector_size |-> 0, vocab |-> {}, vectors |-> <<>>]

VecsA ==
    [vector_size |-> 1,
     vocab       |-> {"cat", "sat", "the", "a", "in"},
     vectors     |-> ("cat" :> <<1>>) @@ ("sat" :> <<2>>) @@ ("the" :> <<3>>)
                        @@ ("a" :> <<4>>) @@ ("in" :> <<5>>)]

VecsB ==
    [vector_size |-> 2,
     vocab       |-> {"cat", "to", "and"},
     vectors     |-> ("cat" :> <<1, -1>>) @@ ("to" :> <<0, 2>>)
                        @@ ("and" :> <<3, 0>>)]

Lookups == {VecsA, VecsB}

\* Outcomes of gensim.downloader.load(name): a vector space, or an exception.
load == {[ok |-> TRUE, vecs |-> v] : v \in Lookups}
            \cup {[ok |-> FALSE, vecs |-> NoVecs]}

\* --------------------------------------------------------------- embedder
\* numpy.zeros(dims) for a 3-tuple dims.
zeros(dims) ==
    [a \in 0..(dims[1] - 1) |->
        [b \in 0..(dims[2] - 1) |-> [c \in 1..dims[3] |-> 0]]]

\* Variant of __init__: a failed load is swallowed and an object is returned.
init_swallows(docs, out) ==
    /\ pc = "start"
    /\ DOCS' = docs
    /\ FIXED_DOCSIZE' = FixedDocsizeValue
    /\ loads' = loads + 1
    /\ WORD_VECS' = out.vecs
    /\ loadResult' = IF out.ok THEN "ok" ELSE "unavailable"
    /\ pc' = "ready"
    /\ instance' = TRUE
    /\ UNCHANGED <<heap, embedding, i, words, rows, err, calls, returned>>

\* NLP.__init__(docs), with `out` the outcome of load().
__init__(docs, out) ==
    /\ pc = "start"
    /\ DOCS' = docs
    /\ FIXED_DOCSIZE' = FixedDocsizeValue
    /\ loads' = loads + 1
    /\ IF out.ok
       THEN /\ WORD_VECS' = out.vecs
            /\ loadResult' = "ok"
            /\ pc' = "ready"
            /\ instance' = TRUE
       ELSE /\ WORD_VECS' = WORD_VECS
            /\ loadResult' = "unavailable"
            /\ pc' = "LookupUnavailable"
            /\ instance' = FALSE
    /\ UNCHANGED <<heap, embedding, i, words, rows, err, calls, returned>>

\* Variant of _initialize: an empty collection still gets one slice.
initialize_min_one ==
    Append(heap, zeros(<<IF Len(DOCS) = 0 THEN 1 ELSE Len(DOCS),
                         FIXED_DOCSIZE, WORD_VECS.vector_size>>))

\* Variant of _initialize: the array is allocated once and reused.
initialize_cached ==
    IF heap = <<>>
    THEN Append(heap, zeros(<<Len(DOCS), FIXED_DOCSIZE, WORD_VECS.vector_size>>))
    ELSE heap

\* NLP._initialize: allocate a fresh zero array; the heap after the call.
_initialize ==
    Append(heap, zeros(<<Len(DOCS), FIXED_DOCSIZE, WORD_VECS.vector_size>>))

\* NLP._gen_tokens
_gen_tokens(text) ==
    SelectSeq(tokenize(text), LAMBDA token : token \in WORD_VECS.vocab)

\* Variant of _rm_stopwords: nothing is filtered.
rm_stopwords_none(ws) == ws

\* NLP._rm_stopwords
_rm_stopwords(ws) ==
    SelectSeq(ws, LAMBDA word :
        word \notin {"a", "and", "for", "in", "of", "the", "to"})

\* Variant of _trunc_doc: the list is not cut.
trunc_doc_none(ws) == ws

\* NLP._trunc_doc: list(words)[:self.__FIXED_DOCSIZE]
_trunc_doc(ws) ==
    IF Len(ws) <= FIXED_DOCSIZE THEN ws ELSE SubSeq(ws, 1, FIXED_DOCSIZE)

\* Calling one of the bound methods handed to pipe.
call(f, x) ==
    CASE f = "_gen_tokens"   -> _gen_tokens(x)
      [] f = "_rm_stopwords" -> _rm_stopwords(x)
      [] f = "_trunc_doc"    -> _trunc_doc(x)

\* pipe(*args) = reduce(lambda f, g: g(f), args)
RECURSIVE pipe(_)
pipe(args) ==
    IF Len(args) = 1 THEN args[1]
    ELSE pipe(<<call(args[2], args[1])>> \o SubSeq(args, 3, Len(args)))

\* Variant of line 55: the list is cut before the stopwords are removed.
doc_words_cut_early(doc) ==
    pipe(<<doc, "_gen_tokens", "_trunc_doc", "_rm_stopwords">>)

\* embed(), line 55: the word list of one document.
doc_words(doc) ==
    pipe(<<doc, "_gen_tokens", "_rm_stopwords", "_trunc_doc">>)

\* Variant of lines 56-57: enumerate(words, 1), every row one slot late.
set_rows_shifted(tensor, d, ws) ==
    LET raises(j) == \/ ws[j + 1] \notin WORD_VECS.vocab
                     \/ d \notin DOMAIN tensor
                     \/ (j + 1) \notin DOMAIN tensor[d]
        bad  == {j \in 0..(Len(ws) - 1) : raises(j)}
        stop == IF bad = {} THEN Len(ws)
                ELSE CHOOSE j \in bad : \A k \in bad : j <= k
        kind == IF bad = {} THEN "none"
                ELSE IF ws[stop + 1] \notin WORD_VECS.vocab THEN "KeyError"
                ELSE "IndexError"
    IN  [tensor |->
            IF stop = 0 THEN tensor
            ELSE [tensor EXCEPT ![d] =
                    [j \in DOMAIN tensor[d] |->
                        IF j >= 1 /\ j <= stop THEN WORD_VECS.vectors[ws[j]]
                        ELSE tensor[d][j]]],
         n   |-> stop,
         err |-> kind]

\* embed(), lines 56-57: assign the rows of document d in order, stopping at
\* the first assignment that raises (KeyError from the lookup, IndexError
\* from the array).
set_rows(tensor, d, ws) ==
    LET raises(j) == \/ ws[j + 1] \notin WORD_VECS.vocab
                     \/ d \notin DOMAIN tensor
                     \/ j \notin DOMAIN tensor[d]
        bad  == {j \in 0..(Len(ws) - 1) : raises(j)}
        stop == IF bad = {} THEN Len(ws)
                ELSE CHOOSE j \in bad : \A k \in bad : j <= k
        kind == IF bad = {} THEN "none"
                ELSE IF ws[stop + 1] \notin WORD_VECS.vocab THEN "KeyError"
                ELSE "IndexError"
    IN  [tensor |->
            IF stop = 0 THEN tensor
            ELSE [tensor EXCEPT ![d] =
                    [j \in DOMAIN tensor[d] |->
                        IF j < stop THEN WORD_VECS.vectors[ws[j + 1]]
                        ELSE tensor[d][j]]],
         n   |-> stop,
         err |-> kind]

\* Variant of EmbedBegin: the iteration over the documents is not restarted.
EmbedBegin_stale ==
    /\ pc = "ready"
    /\ instance
    /\ calls < MaxCalls
    /\ calls' = calls + 1
    /\ heap' = _initialize
    /\ embedding' = Len(heap')
    /\ i' = i
    /\ rows' = <<>>
    /\ words' = <<>>
    /\ err' = "none"
    /\ pc' = "embedding"
    /\ UNCHANGED <<instance, DOCS, FIXED_DOCSIZE, WORD_VECS, loads,
                   loadResult, returned>>

\* Variant of EmbedBegin: every call loads the vector space again.
EmbedBegin_reload ==
    /\ pc = "ready"
    /\ instance
    /\ calls < MaxCalls
    /\ calls' = calls + 1
    /\ loads' = loads + 1
    /\ heap' = _initialize
    /\ embedding' = Len(heap')
    /\ i' = 0
    /\ rows' = <<>>
    /\ words' = <<>>
    /\ err' = "none"
    /\ pc' = "embedding"
    /\ UNCHANGED <<instance, DOCS, FIXED_DOCSIZE, WORD_VECS, loadResult,
                   returned>>

\* embed(), line 52: the call starts.
EmbedBegin ==
    /\ pc = "ready"
    /\ instance
    /\ calls < MaxCalls
    /\ calls' = calls + 1
    /\ heap' = _initialize
    /\ embedding' = Len(heap')
    /\ i' = 0
    /\ rows' = <<>>
    /\ words' = <<>>
    /\ err' = "none"
    /\ pc' = "embedding"
    /\ UNCHANGED <<instance, DOCS, FIXED_DOCSIZE, WORD_VECS, loads,
                   loadResult, returned>>

\* Variant of OnTokenizeError: the document is skipped and the loop goes on.
OnTokenizeError_skip ==
    /\ i' = i + 1
    /\ rows' = Append(rows, 0)
    /\ err' = err
    /\ pc' = pc
    /\ UNCHANGED <<heap, words, returned>>

\* An exception raised by tokenize() leaves embed(): nothing is returned.
OnTokenizeError ==
    /\ err' = "TokenizationError"
    /\ pc' = "ready"
    /\ UNCHANGED <<i, heap, words, rows, returned>>

\* embed(), lines 54-57: one iteration of the loop over the documents.
EmbedDoc ==
    /\ pc = "embedding"
    /\ i < Len(DOCS)
    /\ IF ~CanTokenize(DOCS[i + 1])
       THEN OnTokenizeError
       ELSE LET ws == doc_words(DOCS[i + 1])
                r  == set_rows(heap[embedding], i, ws)
            IN  /\ words' = ws
                /\ heap' = [heap EXCEPT ![embedding] = r.tensor]
                /\ rows' = Append(rows, r.n)
                /\ returned' = returned
                /\ IF r.err = "none"
                   THEN i' = i + 1 /\ pc' = pc /\ err' = err
                   ELSE i' = i /\ pc' = "ready" /\ err' = r.err
    /\ UNCHANGED <<instance, DOCS, FIXED_DOCSIZE, WORD_VECS, loads,
                   loadResult, embedding, calls>>

\* embed(), line 59: the loop is over, the array is returned.
EmbedReturn ==
    /\ pc = "embedding"
    /\ i = Len(DOCS)
    /\ returned' = Append(returned, embedding)
    /\ pc' = "ready"
    /\ UNCHANGED <<instance, DOCS, FIXED_DOCSIZE, WORD_VECS, loads,
                   loadResult, heap, embedding, i, words, rows, err, calls>>

Construct == \E docs \in DocCollections, out \in load : __init__(docs, out)

Init ==
    /\ pc = "start"
    /\ instance = FALSE
    /\ DOCS = <<>>
    /\ FIXED_DOCSIZE = 0
    /\ WORD_VECS = NoVecs
    /\ loads = 0
    /\ loadResult = "none"
    /\ heap = <<>>
    /\ embedding = 0
    /\ i = 0
    /\ words = <<>>
    /\ rows = <<>>
    /\ err = "none"
    /\ calls = 0
    /\ returned = <<>>

Next == Construct \/ EmbedBegin \/ EmbedDoc \/ EmbedReturn

Spec == Init /\ [][Next]_vars

\* ================================================================ claims
\* The stopword set and the truncated word list as the specification
\* states them.
StopwordSet == {"a", "and", "for", "in", "of", "the", "to"}

Surviving(text) ==
    SelectSeq(tokenize(text),
              LAMBDA w : w \in WORD_VECS.vocab /\ w \notin StopwordSet)

Truncated(text) ==
    LET S == Surviving(text)
    IN  IF Len(S) <= FixedDocsizeValue THEN S
        ELSE [j \in 1..FixedDocsizeValue |-> S[j]]

ZeroVec == [c \in 1..WORD_VECS.vector_size |-> 0]

Slots == 0..(FixedDocsizeValue - 1)

Decodable == \A d \in 1..Len(DOCS) : CanTokenize(DOCS[d])

FirstBad == CHOOSE d \in 1..Len(DOCS) :
                /\ ~CanTokenize(DOCS[d])
                /\ \A e \in 1..(d - 1) : CanTokenize(DOCS[e])

\* The array a returned reference points to.
Result(k) == heap[returned[k]]

\* Row [d, j, :] of array T, or <<>> when T has no such row.
Row(T, d, j) ==
    IF d \in DOMAIN T /\ j \in DOMAIN T[d] THEN T[d][j] ELSE <<>>

\* Every row of slice d of T is the zero vector.
ZeroSlice(T, d) ==
    /\ d \in DOMAIN T
    /\ \A j \in DOMAIN T[d] : T[d][j] = ZeroVec

\* C1: in every returned tensor, for every document at index d-1 with
\* truncated word list W, row [d-1, j] is the lookup's vector of W[j] for
\* j < len(W) and the zero vector for len(W) <= j < FIXED_DOCSIZE.
C1_RowsHoldWordVectors ==
    \A k \in 1..Len(returned) : \A d \in 1..Len(DOCS) :
        LET W == Truncated(DOCS[d])
        IN  \A j \in Slots :
                Row(Result(k), d - 1, j) =
                    IF j < Len(W) THEN WORD_VECS.vectors[W[j + 1]] ELSE ZeroVec

C1_Witness ==
    /\ Len(returned) >= 1
    /\ Len(DOCS) = 2
    /\ Len(Truncated(DOCS[1])) = 2
    /\ Len(Truncated(DOCS[2])) = 3
    /\ Row(Result(1), 0, 0) # Row(Result(1), 0, 1)
    /\ Row(Result(1), 0, 2) = ZeroVec
    /\ Row(Result(1), 1, 2) # ZeroVec

\* C2: every embed() call on a collection of N decodable documents, N = 0
\* included, ends without error and returns a tensor of shape
\* (N, 200, vector_size of the lookup).
C2_Shape ==
    /\ instance => FIXED_DOCSIZE = 200
    /\ \A k \in 1..Len(returned) :
        /\ DOMAIN Result(k) = 0..(Len(DOCS) - 1)
        /\ \A d \in DOMAIN Result(k) :
            /\ DOMAIN Result(k)[d] = 0..199
            /\ \A j \in DOMAIN Result(k)[d] :
                DOMAIN Result(k)[d][j] = 1..WORD_VECS.vector_size
    /\ (pc = "ready" /\ calls > 0 /\ Decodable) =>
            (err = "none" /\ Len(returned) = calls)

C2_Witness ==
    /\ Len(returned) >= 1
    /\ DOCS = <<>>
    /\ DOMAIN Result(1) = {}
    /\ err = "none"

\* C3: no row is assigned at a slot j >= FIXED_DOCSIZE and no IndexError is
\* raised; of a document with more than FIXED_DOCSIZE surviving tokens
\* exactly the first FIXED_DOCSIZE are written, in order.
C3_NoWriteBeyondDocsize ==
    /\ err # "IndexError"
    /\ \A k \in 1..Len(rows) : rows[k] <= FixedDocsizeValue
    /\ (i > 0 /\ CanTokenize(DOCS[i])) =>
        LET S == Surviving(DOCS[i])
        IN  Len(S) > FixedDocsizeValue =>
                /\ Len(words) = FixedDocsizeValue
                /\ Len(rows) = i
                /\ rows[i] = FixedDocsizeValue
                /\ \A j \in Slots :
                    /\ words[j + 1] = S[j + 1]
                    /\ Row(heap[embedding], i - 1, j) = WORD_VECS.vectors[S[j + 1]]

C3_Witness ==
    /\ Len(returned) >= 1
    /\ i > 0
    /\ CanTokenize(DOCS[i])
    /\ Len(Surviving(DOCS[i])) > FixedDocsizeValue
    /\ Row(Result(1), i - 1, FixedDocsizeValue - 1) # ZeroVec

\* C4: a document with zero surviving tokens raises no error and has an
\* all-zero slice, and the other documents of the batch still get their
\* word vectors.
C4_ZeroSurvivorsZeroSlice ==
    /\ (pc = "ready" /\ calls > 0 /\ Decodable) => err = "none"
    /\ \A k \in 1..Len(returned) : \A d \in 1..Len(DOCS) :
        IF Surviving(DOCS[d]) = <<>>
        THEN ZeroSlice(Result(k), d - 1)
        ELSE Row(Result(k), d - 1, 0) = WORD_VECS.vectors[Surviving(DOCS[d])[1]]

C4_Witness ==
    /\ Len(returned) >= 1
    /\ Len(DOCS) = 2
    /\ DOCS[1] # <<>>
    /\ Surviving(DOCS[1]) = <<>>
    /\ \E p \in 1..Len(DOCS[1]) : tokenize(DOCS[1])[p] \in WORD_VECS.vocab
    /\ Surviving(DOCS[2]) # <<>>
    /\ Row(Result(1), 1, 0) # ZeroVec

\* C5: all tensors returned by the embed() calls of one instance are equal,
\* however many calls came before.
C5_Idempotent ==
    \A a, b \in 1..Len(returned) : Result(a) = Result(b)

C5_Witness ==
    /\ Len(returned) >= 2
    /\ Len(DOCS) >= 1
    /\ Row(Result(2), 0, 0) # ZeroVec

\* C6: when some document cannot be tokenized, every embed() call ends with
\* a TokenizationError at the first such document: no tensor is ever
\* returned, the loop stops at that document, and no later document is
\* processed.
C6_TokenizationErrorAborts ==
    (instance /\ ~Decodable) =>
        /\ returned = <<>>
        /\ err \in {"none", "TokenizationError"}
        /\ i <= FirstBad - 1
        /\ (pc = "ready" /\ calls > 0) =>
            /\ err = "TokenizationError"
            /\ i = FirstBad - 1
            /\ Len(rows) = FirstBad - 1
            /\ \A d \in FirstBad..Len(DOCS) : ZeroSlice(heap[embedding], d - 1)

C6_Witness ==
    /\ err = "TokenizationError"
    /\ Len(DOCS) = 2
    /\ FirstBad = 1
    /\ Surviving(DOCS[2]) # <<>>
    /\ returned = <<>>

\* C7: when the vector lookup cannot be loaded, construction fails with
\* LookupUnavailable after a single load attempt, and no embedder instance
\* results: embed() is never called and nothing is allocated or returned.
C7_ConstructionFails ==
    loadResult = "unavailable" =>
        /\ pc = "LookupUnavailable"
        /\ ~instance
        /\ loads = 1
        /\ calls = 0
        /\ heap = <<>>
        /\ returned = <<>>

C7_Witness ==
    /\ loadResult = "unavailable"
    /\ pc = "LookupUnavailable"
    /\ DOCS # <<>>

\* C8: once the instance exists the lookup has been loaded exactly once, and
\* no step of any embed() call loads it again or changes the lookup, the
\* stored documents or FIXED_DOCSIZE.
C8_LoadedOnceReadOnly ==
    [][ /\ instance' => loads' = 1
        /\ instance =>
            /\ instance'
            /\ WORD_VECS' = WORD_VECS
            /\ DOCS' = DOCS
            /\ FIXED_DOCSIZE' = FIXED_DOCSIZE
            /\ loads' = loads ]_vars

C8_Witness ==
    /\ instance
    /\ Len(returned) >= 2
    /\ loads = 1
    /\ DOCS # <<>>

\* C9: every embed() call starts on a newly allocated all-zero tensor, no
\* step changes a tensor that an earlier call returned, and the returned
\* references are pairwise distinct.
C9_FreshTensorPerCall ==
    [][ /\ \A k \in 1..Len(returned) :
            /\ returned[k] \in DOMAIN heap'
            /\ heap'[returned[k]] = heap[returned[k]]
        /\ \A a, b \in 1..Len(returned') :
            a # b => returned'[a] # returned'[b]
        /\ (pc = "ready" /\ pc' = "embedding") =>
            /\ embedding' \notin DOMAIN heap
            /\ embedding' \in DOMAIN heap'
            /\ \A d \in DOMAIN heap'[embedding'] :
                ZeroSlice(heap'[embedding'], d) ]_vars

C9_Witness ==
    /\ Len(returned) >= 2
    /\ returned[1] # returned[2]
    /\ Len(DOCS) >= 1
    /\ Row(Result(1), 0, 0) # ZeroVec

\* C10: the word list of a document is the order-preserving subsequence,
\* repeated tokens kept, of its lowercased tokens that are in the vocabulary
\* and not stopwords, cut to FIXED_DOCSIZE after both filters.
C10_FilteredSubsequence ==
    (i > 0 /\ CanTokenize(DOCS[i])) =>
        LET toks == tokenize(DOCS[i])
            kept == SelectSeq([p \in 1..Len(toks) |-> p],
                              LAMBDA p : /\ toks[p] \in WORD_VECS.vocab
                                         /\ toks[p] \notin StopwordSet)
        IN  /\ Len(words) = IF Len(kept) <= FixedDocsizeValue THEN Len(kept)
                            ELSE FixedDocsizeValue
            /\ \A j \in 1..Len(words) :
                /\ j <= Len(kept)
                /\ words[j] = toks[kept[j]]
                /\ words[j] \in WORD_VECS.vocab
                /\ words[j] \notin StopwordSet

C10_Witness ==
    /\ i > 0
    /\ CanTokenize(DOCS[i])
    /\ Len(words) = 3
    /\ words[1] = words[3]
    /\ LET toks == tokenize(DOCS[i])
       IN  /\ toks # DOCS[i]
           /\ \E p \in 1..Len(toks) :
                toks[p] \in StopwordSet /\ toks[p] \in WORD_VECS.vocab
           /\ \E p \in 1..Len(toks) :
                toks[p] \in StopwordSet /\ toks[p] \notin WORD_VECS.vocab
           /\ \E p \in 1..Len(toks) :
                toks[p] \notin StopwordSet /\ toks[p] \notin WORD_VECS.vocab
====
